---- MODULE Spec2Model ----
(***************************************************************************)
(* Model of BracketMot.py: the sizing of an L-shaped motor bracket         *)
(* (build_l_bracket) and the command-line pipeline around it (main).       *)
(*                                                                         *)
(* Lengths are integers in micrometres (1 mm = 1000).  Every input is a    *)
(* multiple of 0.1 mm (100), so that halving and the factor 0.28 of the    *)
(* source are exact in integer arithmetic: x / 2.0 is x \div 2 and         *)
(* w * 0.28 is (28 * w) \div 100.  The arithmetic is that of the reals;    *)
(* the rounding of Python's binary floats is not modelled.                 *)
(***************************************************************************)
EXTENDS Integers, Sequences, FiniteSets

VARIABLES pc, args, motor_spec, params, bracket, fs, stdout, exit_code

vars == <<pc, args, motor_spec, params, bracket, fs, stdout, exit_code>>

(***************************************************************************)
(* Units and bounds                                                        *)
(***************************************************************************)
\* --thickness values tried: 1 mm .. MaxThickness mm
MaxThickness == 16
\* number of parent directories of --out that do not exist yet: 0 .. MaxMissingDirs
MaxMissingDirs == 2

Max(a, b) == IF a >= b THEN a ELSE b
Min(a, b) == IF a <= b THEN a ELSE b

(***************************************************************************)
(* MotorFixedSpec and BracketParams with their default values              *)
(***************************************************************************)
MotorFixedSpec ==
  [flange_size          |-> 60000,
   body_diameter        |-> 60000,
   mount_hole_pitch     |-> 49500,
   mount_hole_diameter  |-> 4500,
   mount_hole_clearance |-> 500,
   pilot_diameter       |-> 54000,
   pilot_clearance      |-> 2000]

BracketParams(thickness) ==
  [thickness             |-> thickness,
   hole_edge_margin      |-> 12000,
   body_clearance        |-> 8000,
   top_margin            |-> 10000,
   base_length_extra     |-> 20000,
   base_hole_diameter    |-> 6600,
   base_hole_edge_offset |-> 18000]

\* default of --thickness
DefaultThickness == 5000

(***************************************************************************)
(* build_l_bracket: the sizing                                             *)
(***************************************************************************)
\* variant: the body clearance left out of the mount height
mount_center_z_no_clearance(motor, p) ==
  p.thickness + motor.body_diameter \div 2

mount_center_z(motor, p) ==
  p.thickness + motor.body_diameter \div 2 + p.body_clearance

\* variant: the wall sized by the flange alone, the hole margin left out
wall_height_flange_only(motor, p) ==
  mount_center_z(motor, p) + motor.flange_size \div 2 + p.top_margin

wall_height(motor, p) ==
  mount_center_z(motor, p)
    + Max(motor.flange_size \div 2 + p.top_margin,
          motor.mount_hole_pitch \div 2 + p.hole_edge_margin)

\* variant: the smaller of the two widths taken
wall_width_min(motor, p) ==
  Min(motor.flange_size + 2 * p.body_clearance,
      motor.mount_hole_pitch + 2 * p.hole_edge_margin)

wall_width(motor, p) ==
  Max(motor.flange_size + 2 * p.body_clearance,
      motor.mount_hole_pitch + 2 * p.hole_edge_margin)

\* variant: the smaller of the two lengths taken
base_length_min(w, p) ==
  Min(w + p.base_length_extra, 2 * p.base_hole_edge_offset + 24000)

base_length(w, p) ==
  Max(w + p.base_length_extra, 2 * p.base_hole_edge_offset + 24000)

\* the four mount holes, in the (u, v) = (Y, Z) frame of the mount plane
hole_points(motor) ==
  LET half_pitch == motor.mount_hole_pitch \div 2
  IN  << <<-half_pitch, -half_pitch>>,
         <<-half_pitch,  half_pitch>>,
         << half_pitch, -half_pitch>>,
         << half_pitch,  half_pitch>> >>

\* extrude(distance, both): the extent of the solid along the plane's normal,
\* from a plane whose origin lies at `origin` on that axis
\* variant: both=True ignored, the solid grows along the normal only
extrude_one_side(origin, distance, both) ==
  [lo |-> origin, hi |-> origin + distance]

extrude(origin, distance, both) ==
  [lo |-> IF both THEN origin - distance ELSE origin,
   hi |-> origin + distance]

\* variant: the thickness used in place of the 4 mm allowance
y_off_thickness(w, p) ==
  Min(Max((28 * w) \div 100, p.base_hole_diameter + p.thickness),
      w \div 2 - p.hole_edge_margin + 2000)

y_off(w, p) ==
  Min(Max((28 * w) \div 100, p.base_hole_diameter + 4000),
      w \div 2 - p.hole_edge_margin + 2000)

base_hole_x1(bl, p) == p.base_hole_edge_offset

\* variant: the edge offset taken off twice
base_hole_x2_short(bl, p) == bl - 2 * p.base_hole_edge_offset

base_hole_x2(bl, p) == bl - p.base_hole_edge_offset

\* the four base holes, in the frame of the workplane centred on the top face
base_hole_points(bl, x1, x2, yo) ==
  << <<x1 - bl \div 2, -yo>>,
     <<x1 - bl \div 2,  yo>>,
     <<x2 - bl \div 2, -yo>>,
     <<x2 - bl \div 2,  yo>> >>

build_l_bracket(motor, p) ==
  LET mcz == mount_center_z(motor, p)
      wh  == wall_height(motor, p)
      ww  == wall_width(motor, p)
      bl  == base_length(ww, p)
      t   == p.thickness
      cut == extrude(t, t + 2000, TRUE)
      x1  == base_hole_x1(bl, p)
      x2  == base_hole_x2(bl, p)
      yo  == y_off(ww, p)
  IN  [mount_center_z   |-> mcz,
       wall_height      |-> wh,
       wall_width       |-> ww,
       base_length      |-> bl,
       t                |-> t,
       \* box(length, width, height, centered=(False, True, False))
       base             |-> [x |-> <<0, bl>>, y |-> <<-(ww \div 2), ww \div 2>>, z |-> <<0, t>>],
       wall             |-> [x |-> <<0, t>>,  y |-> <<-(ww \div 2), ww \div 2>>, z |-> <<0, wh>>],
       mount_plane      |-> <<t, 0, mcz>>,
       mount_hole_d     |-> motor.mount_hole_diameter + motor.mount_hole_clearance,
       center_hole_d    |-> motor.pilot_diameter + motor.pilot_clearance,
       hole_points      |-> hole_points(motor),
       hole_cutter      |-> cut,
       shaft_cutter     |-> cut,
       x1               |-> x1,
       x2               |-> x2,
       y_off            |-> yo,
       base_hole_points |-> base_hole_points(bl, x1, x2, yo),
       base_hole_d      |-> p.base_hole_diameter]

(***************************************************************************)
(* main: parse_args, build, mkdir of the parents, export, summary          *)
(*                                                                         *)
(* A run that asks for -h/--help ends inside parse_args before the         *)
(* pipeline starts and is not a run of the pipeline; it is left out.       *)
(* argparse, cadquery and the filesystem are the environment: each call    *)
(* into them either returns or raises, and an exception nobody catches     *)
(* ends the interpreter with exit code 1 (argparse itself exits with 2).   *)
(***************************************************************************)
Thicknesses == {k * 1000 : k \in 1..MaxThickness}

NoArgs    == [thickness |-> 0, out_missing |-> 0]
NoMotor   == [flange_size |-> 0]
NoParams  == [thickness |-> 0]
NoBracket == [t |-> 0]
EmptyFs   == [dirs_created |-> 0, file |-> "none"]

Init ==
  /\ pc = "parse_args"
  /\ args = NoArgs
  /\ motor_spec = NoMotor
  /\ params = NoParams
  /\ bracket = NoBracket
  /\ fs = EmptyFs
  /\ stdout = << >>
  /\ exit_code = -1

\* parser.parse_args() returns: --thickness is a float, --out a path of which
\* out_missing parent directories do not exist yet
ParseArgs ==
  /\ pc = "parse_args"
  /\ \E th \in Thicknesses, missing \in 0..MaxMissingDirs :
        args' = [thickness |-> th, out_missing |-> missing]
  /\ pc' = "build"
  /\ UNCHANGED <<motor_spec, params, bracket, fs, stdout, exit_code>>

\* parser.parse_args() rejects the command line (a --thickness that is no float)
ParseArgsError ==
  /\ pc = "parse_args"
  /\ pc' = "exited"
  /\ exit_code' = 2
  /\ UNCHANGED <<args, motor_spec, params, bracket, fs, stdout>>

Build ==
  /\ pc = "build"
  /\ motor_spec' = MotorFixedSpec
  /\ params' = BracketParams(args.thickness)
  /\ bracket' = build_l_bracket(motor_spec', params')
  /\ pc' = "mkdir"
  /\ UNCHANGED <<args, fs, stdout, exit_code>>

\* the geometry kernel raises while the solid is built
BuildRaises ==
  /\ pc = "build"
  /\ motor_spec' = MotorFixedSpec
  /\ params' = BracketParams(args.thickness)
  /\ pc' = "exited"
  /\ exit_code' = 1
  /\ UNCHANGED <<args, bracket, fs, stdout>>

\* out_path.parent.mkdir(parents=True, exist_ok=True) creates every missing parent
Mkdir ==
  /\ pc = "mkdir"
  /\ fs' = [fs EXCEPT !.dirs_created = args.out_missing]
  /\ pc' = "export"
  /\ UNCHANGED <<args, motor_spec, params, bracket, stdout, exit_code>>

\* mkdir raises (permission, a file in the way, a name too long) after it has
\* created some, but not all, of the missing parents
MkdirRaises ==
  /\ pc = "mkdir"
  /\ \E made \in 0..args.out_missing :
        /\ made < args.out_missing \/ args.out_missing = 0
        /\ fs' = [fs EXCEPT !.dirs_created = made]
  /\ pc' = "exited"
  /\ exit_code' = 1
  /\ UNCHANGED <<args, motor_spec, params, bracket, stdout>>

\* cq.exporters.export(bracket, str(out_path)) writes the file and returns
Export ==
  /\ pc = "export"
  /\ fs' = [fs EXCEPT !.file = "full"]
  /\ pc' = "print"
  /\ UNCHANGED <<args, motor_spec, params, bracket, stdout, exit_code>>

\* the export raises: before it opened the file, or part of the way through
ExportRaises ==
  /\ pc = "export"
  /\ \E left \in {"none", "partial"} : fs' = [fs EXCEPT !.file = left]
  /\ pc' = "exited"
  /\ exit_code' = 1
  /\ UNCHANGED <<args, motor_spec, params, bracket, stdout>>

\* the four print calls, then the interpreter ends normally
PrintSummary ==
  /\ pc = "print"
  /\ stdout' = <<"[OK] STEP exported",
                 motor_spec.mount_hole_pitch,
                 motor_spec.mount_hole_diameter + motor_spec.mount_hole_clearance,
                 motor_spec.pilot_diameter + motor_spec.pilot_clearance>>
  /\ pc' = "exited"
  /\ exit_code' = 0
  /\ UNCHANGED <<args, motor_spec, params, bracket, fs>>

Next ==
  \/ ParseArgs
  \/ ParseArgsError
  \/ Build
  \/ BuildRaises
  \/ Mkdir
  \/ MkdirRaises
  \/ Export
  \/ ExportRaises
  \/ PrintSummary

Spec == Init /\ [][Next]_vars

(***************************************************************************)
(* build_l_bracket as a function of its two arguments: the caller passes   *)
(* any MotorFixedSpec and BracketParams with strictly positive fields.     *)
(***************************************************************************)
FlangeSizes         == {40000, 60000}
BodyDiameters       == {20000, 60000}
MountHolePitches    == {49500, 70000}
PilotDiameters      == {54000, 90000}
HoleEdgeMargins     == {1000, 12000, 20000}
BodyClearances      == {1000, 8000}
TopMargins          == {2000, 10000}
BaseLengthExtras    == {5000, 20000}
BaseHoleDiameters   == {6600, 30000}
BaseHoleEdgeOffsets == {18000, 50000}

Motors ==
  {[MotorFixedSpec EXCEPT !.flange_size = f, !.body_diameter = b,
                          !.mount_hole_pitch = h, !.pilot_diameter = d] :
     f \in FlangeSizes, b \in BodyDiameters, h \in MountHolePitches, d \in PilotDiameters}

Brackets ==
  {[thickness |-> th, hole_edge_margin |-> m, body_clearance |-> c, top_margin |-> tm,
    base_length_extra |-> e, base_hole_diameter |-> d, base_hole_edge_offset |-> o] :
     th \in Thicknesses, m \in HoleEdgeMargins, c \in BodyClearances, tm \in TopMargins,
     e \in BaseLengthExtras, d \in BaseHoleDiameters, o \in BaseHoleEdgeOffsets}

InitCall ==
  /\ pc = "call"
  /\ args = NoArgs
  /\ motor_spec \in Motors
  /\ params \in Brackets
  /\ bracket = NoBracket
  /\ fs = EmptyFs
  /\ stdout = << >>
  /\ exit_code = -1

Call ==
  /\ pc = "call"
  /\ bracket' = build_l_bracket(motor_spec, params)
  /\ pc' = "return"
  /\ UNCHANGED <<args, motor_spec, params, fs, stdout, exit_code>>

NextCall == Call

SpecCall == InitCall /\ [][NextCall]_vars

\* build_l_bracket has returned and its result is held in `bracket`
Built == bracket # NoBracket

half_pitch == motor_spec.mount_hole_pitch \div 2

\* the wall widths build_l_bracket can compute from the inputs above
WallWidths ==
  {Max(f + 2 * c, h + 2 * m) :
     f \in FlangeSizes, c \in BodyClearances, h \in MountHolePitches, m \in HoleEdgeMargins}

(***************************************************************************)
(* Properties                                                              *)
(***************************************************************************)

\* C1: for strictly positive motor and bracket parameters (the defaults with
\* every thickness among them) the wall reaches at least up to the mount centre,
\* and is at least as wide as the hole pitch plus twice the hole edge margin and
\* as the flange plus twice the body clearance.
C1_WallCoversMount ==
  Built =>
    /\ bracket.wall_height >= bracket.mount_center_z
    /\ bracket.wall_width >= motor_spec.mount_hole_pitch + 2 * params.hole_edge_margin
    /\ bracket.wall_width >= motor_spec.flange_size + 2 * params.body_clearance

C1_Witness ==
  /\ pc = "return"
  /\ motor_spec # MotorFixedSpec
  /\ bracket.wall_width = motor_spec.mount_hole_pitch + 2 * params.hole_edge_margin
  /\ bracket.wall_width > motor_spec.flange_size + 2 * params.body_clearance

\* C2: with the default motor, the default bracket parameters and the default
\* thickness of 5.0 mm, mount_center_z is 43.0, wall_height 83.0 and wall_width
\* 76.0 mm.
C2_DefaultDimensions ==
  (Built /\ args.thickness = DefaultThickness) =>
    /\ bracket.mount_center_z = 43000
    /\ bracket.wall_height = 83000
    /\ bracket.wall_width = 76000

C2_Witness ==
  /\ pc = "mkdir"
  /\ args.thickness = DefaultThickness
  /\ motor_spec = MotorFixedSpec
  /\ params = BracketParams(DefaultThickness)

\* the part of a result that describes the footprint
Footprint(b) ==
  <<b.wall_width, b.base_length, b.hole_points, b.x1, b.x2, b.y_off, b.base_hole_points>>

\* C3: a second run that differs from this one only in thickness computes the
\* same wall_width, base_length, mount-hole points, x1, x2, y_off and base-hole
\* points, while mount_center_z and wall_height each differ by the difference of
\* the two thicknesses; the defaults with thickness 3.0 give mount_center_z = 41.
C3_ThicknessLeavesFootprint ==
  Built =>
    /\ \A th \in Thicknesses :
         LET other == build_l_bracket(motor_spec, [params EXCEPT !.thickness = th])
         IN  /\ Footprint(other) = Footprint(bracket)
             /\ other.mount_center_z - bracket.mount_center_z = th - params.thickness
             /\ other.wall_height - bracket.wall_height = th - params.thickness
    /\ (motor_spec = MotorFixedSpec /\ params = BracketParams(3000))
         => bracket.mount_center_z = 41000

C3_Witness ==
  /\ pc = "return"
  /\ motor_spec = MotorFixedSpec
  /\ params = BracketParams(3000)
  /\ \E th \in Thicknesses :
       build_l_bracket(motor_spec, [params EXCEPT !.thickness = th]).wall_height
         = bracket.wall_height + 2000

\* the elements of a sequence
Range(seq) == {seq[i] : i \in 1..Len(seq)}

\* C4: there are exactly four base-hole points, x1 = base_hole_edge_offset and
\* x2 = base_length - base_hole_edge_offset each paired with +y_off and -y_off;
\* x1 and x2 are symmetric about base_length/2 and x2 - x1 equals
\* base_length - 2*base_hole_edge_offset, which is at least 24 mm.
C4_FourBaseHoles ==
  Built =>
    LET bl  == bracket.base_length
        x1  == bracket.x1
        x2  == bracket.x2
        yo  == bracket.y_off
        \* workplane(centerOption="CenterOfBoundBox") on the top face of the base
        cx  == (bracket.base.x[1] + bracket.base.x[2]) \div 2
        pts == {<<pt[1] + cx, pt[2]>> : pt \in Range(bracket.base_hole_points)}
    IN  /\ Len(bracket.base_hole_points) = 4
        /\ Cardinality(pts) = 4
        /\ pts = {<<x1, yo>>, <<x1, -yo>>, <<x2, yo>>, <<x2, -yo>>}
        /\ x1 = params.base_hole_edge_offset
        /\ x2 = bl - params.base_hole_edge_offset
        /\ x1 + x2 = bl
        /\ x2 - x1 = bl - 2 * params.base_hole_edge_offset
        /\ x2 - x1 >= 24000

C4_Witness ==
  /\ pc = "return"
  /\ bracket.x2 - bracket.x1 = 24000
  /\ bracket.base_length > bracket.wall_width + params.base_length_extra

\* C5: base_length never decreases when wall_width or base_hole_edge_offset
\* increases with everything else fixed, and it is at least
\* wall_width + base_length_extra and at least 2*base_hole_edge_offset + 24.
C5_BaseLengthMonotone ==
  Built =>
    /\ bracket.base_length >= bracket.wall_width + params.base_length_extra
    /\ bracket.base_length >= 2 * params.base_hole_edge_offset + 24000
    /\ \A w2 \in WallWidths :
         /\ w2 >= bracket.wall_width => base_length(w2, params) >= bracket.base_length
         /\ w2 <= bracket.wall_width => base_length(w2, params) <= bracket.base_length
    /\ \A o2 \in BaseHoleEdgeOffsets :
         LET p2 == [params EXCEPT !.base_hole_edge_offset = o2]
         IN  /\ o2 >= params.base_hole_edge_offset
                  => base_length(bracket.wall_width, p2) >= bracket.base_length
             /\ o2 <= params.base_hole_edge_offset
                  => base_length(bracket.wall_width, p2) <= bracket.base_length

C5_Witness ==
  /\ pc = "return"
  /\ \E w2 \in WallWidths :
       w2 > bracket.wall_width /\ base_length(w2, params) > bracket.base_length
  /\ \E o2 \in BaseHoleEdgeOffsets :
       /\ o2 > params.base_hole_edge_offset
       /\ base_length(bracket.wall_width, [params EXCEPT !.base_hole_edge_offset = o2])
            > bracket.base_length

\* C6: for strictly positive parameters y_off lies between 0 and
\* wall_width/2 - hole_edge_margin + 2, and every base hole stays within the
\* width of the plate: y_off + base_hole_diameter/2 <= wall_width/2.
C6_BaseHolesInsidePlate ==
  Built =>
    /\ 0 <= bracket.y_off
    /\ bracket.y_off <= bracket.wall_width \div 2 - params.hole_edge_margin + 2000
    /\ bracket.y_off + params.base_hole_diameter \div 2 <= bracket.wall_width \div 2

\* C7: a run that has ended either exported the whole solid (one complete file,
\* the summary printed, exit code 0) or failed with a non-zero exit code having
\* written nothing: no file, no partial file, no directory, no summary.
C7_AllOrNothing ==
  pc = "exited" =>
    \/ /\ exit_code = 0
       /\ fs.file = "full"
       /\ stdout # << >>
    \/ /\ exit_code # 0
       /\ fs.file = "none"
       /\ fs.dirs_created = 0
       /\ stdout = << >>

\* C8: the mount-hole cutter and the shaft cutter start from the mount plane at
\* x = t, span x from -2 to 2t + 2, and so pass the wall, which occupies
\* [0, t], by at least 2 mm on either face.
C8_CuttersPassThroughWall ==
  Built =>
    \A cut \in {bracket.hole_cutter, bracket.shaft_cutter} :
      /\ bracket.mount_plane[1] = params.thickness
      /\ bracket.wall.x = <<0, params.thickness>>
      /\ cut.lo = -2000
      /\ cut.hi = 2 * params.thickness + 2000
      /\ cut.lo <= bracket.wall.x[1] - 2000
      /\ cut.hi >= bracket.wall.x[2] + 2000

C8_Witness ==
  /\ pc = "return"
  /\ params.thickness > 1000
  /\ bracket.wall.x[1] - bracket.hole_cutter.lo = 2000
  /\ bracket.shaft_cutter.hi - bracket.wall.x[2] = params.thickness + 2000

\* C9: with the defaults and any thickness given on the command line, the two
\* base holes nearest the wall lie wholly beyond the wall:
\* base_hole_edge_offset - base_hole_diameter/2 >= thickness.
C9_WallClearOfBaseHoles ==
  Built =>
    bracket.x1 - bracket.base_hole_d \div 2 >= bracket.wall.x[2]

\* the distances from the mount-hole centres and from the pilot hole to the
\* edges of the wall
TopMarginOfHoles    == bracket.wall_height - (bracket.mount_center_z + half_pitch)
SideMarginOfHoles   == bracket.wall_width \div 2 - half_pitch
BottomMarginOfHoles == (bracket.mount_center_z - half_pitch) - params.thickness
PilotInsideWall ==
  LET r == bracket.center_hole_d \div 2
  IN  /\ r <= bracket.wall_width \div 2
      /\ bracket.mount_center_z + r <= bracket.wall_height
      /\ bracket.mount_center_z - r >= params.thickness

====
